---------------------------- MODULE Spec2Model ----------------------------
(***************************************************************************)
(* Model of the two command-line skills of the repository:                 *)
(*   src/extensions/skill/time/scripts/time.py       (TimeFormatter)       *)
(*   src/extensions/skill/sysinfo/scripts/sysinfo.py (SysInfoReporter)     *)
(* Each invocation is one process: Init is the state before the call, one  *)
(* action per function or per main runs the whole call and records its     *)
(* outcome.  Strings are sequences of one-character strings; non-ASCII     *)
(* characters of the source are written by code point ("U661F").           *)
(***************************************************************************)
EXTENDS Integers, Sequences, FiniteSets, TLC

VARIABLES op, args, env, ret

vars == <<op, args, env, ret>>

(***************************************************************************)
(* Python values                                                           *)
(***************************************************************************)
\* Python's None for an optional command-line string.
None == <<"<None>">>

\* Truth value of an optional string: None and the empty string are falsy.
Truthy(x) == x # None /\ x # <<>>

Returned(v) == [kind |-> "return", value |-> v]

Raised(e) == [kind |-> "raise", value |-> e]

DigitChars == <<"0", "1", "2", "3", "4", "5", "6", "7", "8", "9">>

IsDigit(c) == \E i \in 1..10 : DigitChars[i] = c

DigitVal(c) == (CHOOSE i \in 1..10 : DigitChars[i] = c) - 1

AllDigits(s) == \A i \in 1..Len(s) : IsDigit(s[i])

\* Decimal rendering of n >= 0, zero-padded to at least w characters ("%0wd").
RECURSIVE Pad(_, _)
Pad(n, w) ==
    IF n < 10 /\ w <= 1 THEN <<DigitChars[n + 1]>>
    ELSE Pad(n \div 10, w - 1) \o <<DigitChars[(n % 10) + 1]>>

\* Value of a short run of decimal digits.
RECURSIVE SmallInt(_)
SmallInt(s) ==
    IF s = <<>> THEN 0
    ELSE SmallInt(SubSeq(s, 1, Len(s) - 1)) * 10 + DigitVal(s[Len(s)])

Min(a, b) == IF a < b THEN a ELSE b

StartsWith(s, p) == Len(s) >= Len(p) /\ SubSeq(s, 1, Len(p)) = p

Drop(s, n) == SubSeq(s, n + 1, Len(s))

\* str.replace(old, new): leftmost, non-overlapping occurrences of old.
RECURSIVE Replace(_, _, _)
Replace(s, old, new) ==
    IF Len(s) < Len(old) THEN s
    ELSE IF StartsWith(s, old) THEN new \o Replace(Drop(s, Len(old)), old, new)
    ELSE <<Head(s)>> \o Replace(Tail(s), old, new)

(***************************************************************************)
(* Calendar arithmetic of datetime (proleptic Gregorian ordinals)          *)
(***************************************************************************)
IsLeap(y) == y % 4 = 0 /\ (y % 100 # 0 \/ y % 400 = 0)

DaysInMonth(y, m) ==
    IF m = 2 THEN (IF IsLeap(y) THEN 29 ELSE 28)
    ELSE IF m \in {4, 6, 9, 11} THEN 30 ELSE 31

DaysBeforeYear(y) ==
    (y - 1) * 365 + (y - 1) \div 4 - (y - 1) \div 100 + (y - 1) \div 400

RECURSIVE DaysBeforeMonth(_, _)
DaysBeforeMonth(y, m) ==
    IF m = 1 THEN 0 ELSE DaysBeforeMonth(y, m - 1) + DaysInMonth(y, m - 1)

Ymd2Ord(y, m, d) == DaysBeforeYear(y) + DaysBeforeMonth(y, m) + d

ValidDate(y, m, d) ==
    y \in 1..9999 /\ m \in 1..12 /\ d >= 1 /\ d <= DaysInMonth(y, m)

\* Year of ordinal n: the y with DaysBeforeYear(y) < n <= DaysBeforeYear(y+1).
OrdYear(n) ==
    LET guess == (n - 1) \div 366 + 1
    IN  CHOOSE y \in guess..(guess + 30) :
            DaysBeforeYear(y) < n /\ n <= DaysBeforeYear(y + 1)

OrdMonth(n) ==
    LET y == OrdYear(n)
        r == n - DaysBeforeYear(y)
    IN  CHOOSE m \in 1..12 :
            DaysBeforeMonth(y, m) < r /\ r <= DaysBeforeMonth(y, m) + DaysInMonth(y, m)

OrdDay(n) ==
    LET y == OrdYear(n)
    IN  n - DaysBeforeYear(y) - DaysBeforeMonth(y, OrdMonth(n))

\* A datetime: day ordinal, second of day, microsecond, and tzinfo (aware
\* with a UTC offset in minutes, or naive).
DateTime(o, s, u) == [ord |-> o, sec |-> s, us |-> u, aware |-> FALSE, off |-> 0]

AwareDateTime(o, s, u, offMin) ==
    [ord |-> o, sec |-> s, us |-> u, aware |-> TRUE, off |-> offMin]

\* The wall clock shifted by deltaMin minutes (carries into the ordinal).
ShiftMinutes(dt, deltaMin) ==
    LET t == dt.sec + deltaMin * 60
        dd == IF t >= 0 THEN t \div 86400 ELSE -((-t + 86399) \div 86400)
    IN  [dt EXCEPT !.ord = dt.ord + dd, !.sec = t - dd * 86400]

Weekday(dt) == (dt.ord + 6) % 7

Hour(dt) == dt.sec \div 3600

Minute(dt) == (dt.sec % 3600) \div 60

Second(dt) == dt.sec % 60

(***************************************************************************)
(* time.py: format_time                                                    *)
(***************************************************************************)
WEEKDAYS ==
    << <<"U661F", "U671F", "U4E00">>, <<"U661F", "U671F", "U4E8C">>,
       <<"U661F", "U671F", "U4E09">>, <<"U661F", "U671F", "U56DB">>,
       <<"U661F", "U671F", "U4E94">>, <<"U661F", "U671F", "U516D">>,
       <<"U661F", "U671F", "U65E5">> >>

WEEKDAYS_SHORT ==
    << <<"U5468", "U4E00">>, <<"U5468", "U4E8C">>, <<"U5468", "U4E09">>,
       <<"U5468", "U56DB">>, <<"U5468", "U4E94">>, <<"U5468", "U516D">>,
       <<"U5468", "U65E5">> >>

\* The IANA identifiers the host's timezone database resolves, with the UTC
\* offset (minutes) they have at the instants of the model.
ZoneNames == {<<"UTC">>, <<"Asia/Tokyo">>, <<"Asia/Shanghai">>}

ZoneOffset(tz) ==
    IF tz = <<"Asia/Tokyo">> THEN 540
    ELSE IF tz = <<"Asia/Shanghai">> THEN 480
    ELSE 0

\* ZoneInfo(key) succeeds iff the database is present and holds the key.
ZoneResolves(e, tz) == e.zoneinfo = "full" /\ tz \in ZoneNames

\* dt.astimezone(tz): a naive dt is taken to be system local time.
AsTimezone(dt, e, offMin) ==
    LET from == IF dt.aware THEN dt.off ELSE e.local_off
    IN  [ShiftMinutes(dt, offMin - from) EXCEPT !.aware = TRUE, !.off = offMin]

\* The directives strftime expands; what it does with any other character
\* after '%' depends on the platform's C library.
Directive(dt, c) ==
    CASE c = "Y" -> Pad(OrdYear(dt.ord), 4)
      [] c = "y" -> Pad(OrdYear(dt.ord) % 100, 2)
      [] c = "m" -> Pad(OrdMonth(dt.ord), 2)
      [] c = "d" -> Pad(OrdDay(dt.ord), 2)
      [] c = "H" -> Pad(Hour(dt), 2)
      [] c = "M" -> Pad(Minute(dt), 2)
      [] c = "S" -> Pad(Second(dt), 2)
      [] c = "%" -> <<"%">>
      [] OTHER -> <<"%", c>>

KnownDirectives == {"Y", "y", "m", "d", "H", "M", "S", "%"}

RECURSIVE StrfValid(_)
StrfValid(f) ==
    IF f = <<>> THEN TRUE
    ELSE IF Head(f) # "%" THEN StrfValid(Tail(f))
    ELSE Len(f) >= 2 /\ f[2] \in KnownDirectives /\ StrfValid(Drop(f, 2))

RECURSIVE StrfText(_, _)
StrfText(dt, f) ==
    IF f = <<>> THEN <<>>
    ELSE IF Head(f) # "%" THEN <<Head(f)>> \o StrfText(dt, Tail(f))
    ELSE IF Len(f) = 1 THEN <<"%">>
    ELSE Directive(dt, f[2]) \o StrfText(dt, Drop(f, 2))

\* dt.strftime(f).  An invalid directive is copied verbatim by a lenient C
\* library and rejected with ValueError by a strict one.
strftime(dt, f, e) ==
    IF e.strict_strftime /\ ~StrfValid(f) THEN Raised("ValueError")
    ELSE Returned(StrfText(dt, f))

\* Lines 38-50: the twelve str.replace passes, in source order.
Substitute(dt, fmt) ==
    LET r1 == Replace(fmt, <<"Y", "Y", "Y", "Y">>, <<"%", "Y">>)
        r2 == Replace(r1, <<"Y", "Y">>, <<"%", "y">>)
        r3 == Replace(r2, <<"M", "M">>, <<"%", "m">>)
        r4 == Replace(r3, <<"D", "D">>, <<"%", "d">>)
        r5 == Replace(r4, <<"H", "H">>, <<"%", "H">>)
        r6 == Replace(r5, <<"m", "m">>, <<"%", "M">>)
        r7 == Replace(r6, <<"s", "s">>, <<"%", "S">>)
        r8 == Replace(r7, <<"S", "S", "S">>, Pad(dt.us \div 1000, 3))
        r9 == Replace(r8, <<"d", "d", "d", "d">>, WEEKDAYS[Weekday(dt) + 1])
        r10 == Replace(r9, <<"d", "d", "d">>, WEEKDAYS_SHORT[Weekday(dt) + 1])
        r11 == Replace(r10, <<"A">>, IF Hour(dt) < 12 THEN <<"A", "M">> ELSE <<"P", "M">>)
        r12 == Replace(r11, <<"a">>, IF Hour(dt) < 12 THEN <<"a", "m">> ELSE <<"p", "m">>)
    IN  r12

format_time(dt, fmt, tz, e) ==
    IF Truthy(tz) /\ e.zoneinfo # "none"
    THEN IF ZoneResolves(e, tz)
         THEN LET d2 == AsTimezone(dt, e, ZoneOffset(tz))
              IN  strftime(d2, Substitute(d2, fmt), e)
         ELSE Raised("ZoneInfoNotFoundError")
    ELSE IF Truthy(tz)
    THEN LET d2 == AsTimezone(dt, e, 0)
         IN  strftime(d2, Substitute(d2, fmt), e)
    ELSE strftime(dt, Substitute(dt, fmt), e)

(***************************************************************************)
(* time.py: time_diff                                                      *)
(***************************************************************************)
ParseOk(dt) == [ok |-> TRUE, dt |-> dt]

ParseFail == [ok |-> FALSE, dt |-> DateTime(1, 0, 0)]

\* The pieces of s between occurrences of the character c (str.split).
RECURSIVE Split(_, _)
Split(s, c) ==
    IF \A i \in 1..Len(s) : s[i] # c THEN <<s>>
    ELSE LET k == CHOOSE i \in 1..Len(s) : s[i] = c /\ \A j \in 1..(i - 1) : s[j] # c
         IN  <<SubSeq(s, 1, k - 1)>> \o Split(Drop(s, k), c)

\* "HH:MM" or "HH:MM:SS" -> second of day, or -1.
ParseClock(t) ==
    IF Len(t) = 5 /\ t[3] = ":" /\ AllDigits(SubSeq(t, 1, 2)) /\ AllDigits(SubSeq(t, 4, 5))
       /\ SmallInt(SubSeq(t, 1, 2)) < 24 /\ SmallInt(SubSeq(t, 4, 5)) < 60
    THEN SmallInt(SubSeq(t, 1, 2)) * 3600 + SmallInt(SubSeq(t, 4, 5)) * 60
    ELSE IF Len(t) = 8 /\ t[3] = ":" /\ t[6] = ":" /\ AllDigits(SubSeq(t, 1, 2))
            /\ AllDigits(SubSeq(t, 4, 5)) /\ AllDigits(SubSeq(t, 7, 8))
            /\ SmallInt(SubSeq(t, 1, 2)) < 24 /\ SmallInt(SubSeq(t, 4, 5)) < 60
            /\ SmallInt(SubSeq(t, 7, 8)) < 60
    THEN SmallInt(SubSeq(t, 1, 2)) * 3600 + SmallInt(SubSeq(t, 4, 5)) * 60
         + SmallInt(SubSeq(t, 7, 8))
    ELSE -1

\* datetime.fromisoformat on the shapes YYYY-MM-DD[*HH:MM[:SS][(+|-)HH:MM]].
fromisoformat(s) ==
    IF Len(s) < 10 THEN ParseFail
    ELSE
    LET ds == SubSeq(s, 1, 10)
        dateShape == ds[5] = "-" /\ ds[8] = "-" /\ AllDigits(SubSeq(ds, 1, 4))
                     /\ AllDigits(SubSeq(ds, 6, 7)) /\ AllDigits(SubSeq(ds, 9, 10))
        y == SmallInt(SubSeq(ds, 1, 4))
        m == SmallInt(SubSeq(ds, 6, 7))
        d == SmallInt(SubSeq(ds, 9, 10))
        ts == Drop(s, 11)
        signAt == {i \in 1..Len(ts) : ts[i] \in {"+", "-"}}
        k == IF signAt = {} THEN Len(ts) + 1 ELSE CHOOSE i \in signAt : \A j \in signAt : i <= j
        clock == ParseClock(SubSeq(ts, 1, k - 1))
        offs == ParseClock(Drop(ts, k))
        sgn == IF k <= Len(ts) /\ ts[k] = "-" THEN -1 ELSE 1
    IN  IF ~dateShape THEN ParseFail
        ELSE IF ~ValidDate(y, m, d) THEN ParseFail
        ELSE IF Len(s) = 10 THEN ParseOk(DateTime(Ymd2Ord(y, m, d), 0, 0))
        ELSE IF Len(s) = 11 \/ clock < 0 THEN ParseFail
        ELSE IF k > Len(ts) THEN ParseOk(DateTime(Ymd2Ord(y, m, d), clock, 0))
        ELSE IF offs < 0 \/ Len(Drop(ts, k)) # 5 THEN ParseFail
        ELSE ParseOk(AwareDateTime(Ymd2Ord(y, m, d), clock, 0, sgn * (offs \div 60)))

\* datetime.strptime(s, '%Y-%m-%d'): a 4-digit year, then month and day of
\* one or two digits each.
strptime_ymd(s) ==
    LET parts == Split(s, "-")
    IN  IF Len(parts) # 3 THEN ParseFail
        ELSE IF ~(Len(parts[1]) = 4 /\ Len(parts[2]) \in {1, 2} /\ Len(parts[3]) \in {1, 2}
                  /\ AllDigits(parts[1]) /\ AllDigits(parts[2]) /\ AllDigits(parts[3]))
        THEN ParseFail
        ELSE IF ~ValidDate(SmallInt(parts[1]), SmallInt(parts[2]), SmallInt(parts[3]))
        THEN ParseFail
        ELSE ParseOk(DateTime(Ymd2Ord(SmallInt(parts[1]), SmallInt(parts[2]),
                                      SmallInt(parts[3])), 0, 0))

\* Lines 56-62: the two parse attempts.
ParseTarget(target_str) ==
    LET iso == fromisoformat(Replace(target_str, <<"Z">>, <<"+", "0", "0", ":", "0", "0">>))
    IN  IF iso.ok THEN iso ELSE strptime_ymd(target_str)

\* timedelta(days, seconds, microseconds), normalised as Python keeps it.
TimeDelta(d, s, u) ==
    LET s1 == s + (u \div 1000000)
    IN  [days |-> d + (s1 \div 86400), seconds |-> s1 % 86400,
         microseconds |-> u % 1000000]

\* a - b for two naive datetimes.
DateTimeSub(a, b) == TimeDelta(a.ord - b.ord, a.sec - b.sec, a.us - b.us)

AbsDelta(td) ==
    IF td.days < 0 THEN TimeDelta(-td.days, -td.seconds, -td.microseconds) ELSE td

DeltaPositive(td) ==
    td.days > 0 \/ (td.days = 0 /\ (td.seconds > 0 \/ td.microseconds > 0))

InvalidDateMsg ==
    <<"U65E0", "U6548", "U65E5", "U671F", "U683C", "U5F0F", "UFF0C", "U8BF7", "U4F7F",
      "U7528", " ", "Y", "Y", "Y", "Y", "-", "M", "M", "-", "D", "D", " ", "U6216", " ",
      "Y", "Y", "Y", "Y", "-", "M", "M", "-", "D", "D", " ", "H", "H", ":", "m", "m",
      ":", "s", "s">>

DirFuture == <<"U8DDD", "U79BB">>

DirPast == <<"U5DF2", "U8FC7", "U53BB">>

\* '%Y-%m-%d %H:%M:%S'
StampFormat ==
    <<"%", "Y", "-", "%", "m", "-", "%", "d", " ", "%", "H", ":", "%", "M", ":", "%", "S">>

DaysPart(days) == <<" ", "U8FD8", "U6709", " ">> \o Pad(days, 1) \o <<" ", "U5929">>

HoursPart(hours) == <<" ">> \o Pad(hours, 1) \o <<" ", "U5C0F", "U65F6">>

MinutesPart(minutes) == <<" ">> \o Pad(minutes, 1) \o <<" ", "U5206", "U949F">>

\* Lines 75-80: the components appended to the description.
Breakdown(days, hours, minutes) ==
    (IF days > 0 THEN DaysPart(days) ELSE <<>>)
    \o (IF hours > 0 THEN HoursPart(hours) ELSE <<>>)
    \o (IF minutes > 0 /\ days = 0 THEN MinutesPart(minutes) ELSE <<>>)

time_diff(target_str, now) ==
    LET p == ParseTarget(target_str)
        target == p.dt
        diff == DateTimeSub(target, now)
        abs_diff == AbsDelta(diff)
        days == abs_diff.days
        hours == abs_diff.seconds \div 3600
        remainder == abs_diff.seconds % 3600
        minutes == remainder \div 60
        direction == IF DeltaPositive(diff) THEN DirFuture ELSE DirPast
    IN  IF ~p.ok THEN Returned(InvalidDateMsg)
        ELSE IF target.aware # now.aware THEN Raised("TypeError")
        ELSE Returned(direction \o <<" ">> \o StrfText(target, StampFormat)
                      \o Breakdown(days, hours, minutes))

(***************************************************************************)
(* time.py: timestamp_to_date                                              *)
(* Python integers are unbounded: an integer is a sign and its decimal     *)
(* digits, most significant first, without leading zeros.                  *)
(***************************************************************************)
RECURSIVE StripLeft(_, _)
StripLeft(s, c) == IF s # <<>> /\ Head(s) = c THEN StripLeft(Tail(s), c) ELSE s

RECURSIVE StripRight(_, _)
StripRight(s, c) ==
    IF s # <<>> /\ s[Len(s)] = c THEN StripRight(SubSeq(s, 1, Len(s) - 1), c) ELSE s

\* int(text): surrounding blanks, an optional sign, then decimal digits.
ParseInt(text) ==
    LET t == StripRight(StripLeft(text, " "), " ")
        signed == t # <<>> /\ Head(t) \in {"+", "-"}
        body == IF signed THEN Tail(t) ELSE t
        mag == StripLeft(body, "0")
    IN  IF body = <<>> \/ ~AllDigits(body) THEN [ok |-> FALSE, neg |-> FALSE, digits |-> <<>>]
        ELSE [ok |-> TRUE, neg |-> signed /\ Head(t) = "-" /\ mag # <<>>, digits |-> mag]

\* The exponent of the threshold 1e12 of line 89.
MsThresholdDigits == 12

\* The threshold test with one digit too many (1e13).
BelowMsThresholdLate(n) == n.neg \/ Len(n.digits) <= MsThresholdDigits + 1

\* n < 1e12 for an integer n.
BelowMsThreshold(n) == n.neg \/ Len(n.digits) <= MsThresholdDigits

\* floor(n / 1000) for n >= 0: the whole seconds of n / 1000.
WholeSecondsOfMs(n) ==
    [n EXCEPT !.digits = SubSeq(n.digits, 1, Len(n.digits) - 3)]

\* Long division of a digit string by 86400: <<quotient, remainder>>.
RECURSIVE DivModDay(_, _, _)
DivModDay(digits, q, r) ==
    IF digits = <<>> THEN <<q, r>>
    ELSE LET cur == r * 10 + DigitVal(Head(digits))
         IN  DivModDay(Tail(digits), q * 10 + (cur \div 86400), cur % 86400)

\* 1970-01-01 and 9999-12-31 as ordinals; datetime holds years 1..9999.
EpochOrd == Ymd2Ord(1970, 1, 1)

MaxOrd == Ymd2Ord(9999, 12, 31)

\* The most digits a count of seconds inside datetime's range can have.
MaxSecondsDigits == 12

\* datetime.fromtimestamp(n seconds): local wall clock, or out of range.
fromtimestamp(n, e) ==
    IF Len(n.digits) > MaxSecondsDigits THEN ParseFail
    ELSE
    LET qr == DivModDay(n.digits, 0, 0)
        days == IF ~n.neg THEN qr[1]
                ELSE IF qr[2] = 0 THEN -qr[1] ELSE -qr[1] - 1
        secs == IF ~n.neg \/ qr[2] = 0 THEN qr[2] ELSE 86400 - qr[2]
        utc == DateTime(EpochOrd + days, secs, 0)
        local == ShiftMinutes(utc, e.local_off)
    IN  IF local.ord < 1 \/ local.ord > MaxOrd \/ utc.ord < 1 \/ utc.ord > MaxOrd
        THEN ParseFail
        ELSE ParseOk(local)

InvalidTimestampMsg == <<"U65E0", "U6548", "U65F6", "U95F4", "U6233">>

timestamp_to_date(text, e) ==
    LET n == ParseInt(text)
        dt == IF BelowMsThreshold(n) THEN fromtimestamp(n, e)
              ELSE fromtimestamp(WholeSecondsOfMs(n), e)
    IN  IF ~n.ok THEN Returned(InvalidTimestampMsg)
        ELSE IF ~dt.ok THEN Returned(InvalidTimestampMsg)
        ELSE Returned(StrfText(dt.dt, StampFormat))

(***************************************************************************)
(* time.py: main                                                           *)
(***************************************************************************)
\* 'YYYY-MM-DD HH:mm:ss', the default of --format.
DefaultFormat ==
    <<"Y", "Y", "Y", "Y", "-", "M", "M", "-", "D", "D", " ", "H", "H", ":", "m", "m",
      ":", "s", "s">>

UnixLabel == <<"U5F53", "U524D", "U65F6", "U95F4", "U6233", ":", " ">>

SystemLabel == <<"U7CFB", "U7EDF", "U65F6", "U95F4", ":", " ">>

UtcLabel == <<"U", "T", "C", " ", "U65F6", "U95F4", ":", " ">>

InvalidZoneLabel == <<"U65E0", "U6548", "U65F6", "U533A", ":", " ">>

CommonZonesLine ==
    <<"U5E38", "U7528", "U65F6", "U533A", ":", " ", "A", "s", "i", "a", "/", "S", "h",
      "a", "n", "g", "h", "a", "i", ",", " ", "A", "s", "i", "a", "/", "T", "o", "k",
      "y", "o", ",", " ", "A", "m", "e", "r", "i", "c", "a", "/", "N", "e", "w", "_",
      "Y", "o", "r", "k", ",", " ", "E", "u", "r", "o", "p", "e", "/", "L", "o", "n",
      "d", "o", "n">>

ZoneInfoWarning ==
    <<"U8B66", "U544A", ":", " ", "U9700", "U8981", "U5B89", "U88C5", " ", "z", "o",
      "n", "e", "i", "n", "f", "o", " ", "U652F", "U6301", " ", "(", "P", "y", "t", "h",
      "o", "n", " ", "3", ".", "9", "+", ")">>

\* int(now.timestamp()): epoch seconds of the naive local instant now.
UnixSeconds(now, e) ==
    LET utc == ShiftMinutes(now, -e.local_off)
    IN  (utc.ord - EpochOrd) * 86400 + utc.sec

\* The outcome of a process: the lines printed and how it ended.
Exit(lines) == [stdout |-> lines, exit |-> "ok"]

Crash(lines, exc) == [stdout |-> lines, exit |-> exc]

\* Lines 120-128: the line(s) for a requested timezone.
ZoneLines(a, e, now) ==
    IF ~Truthy(a.timezone) THEN <<>>
    ELSE IF e.zoneinfo # "none"
    THEN LET r == format_time(now, a.format, a.timezone, e)
         IN  IF r.kind = "return" THEN <<a.timezone \o <<":", " ">> \o r.value>>
             ELSE <<InvalidZoneLabel \o a.timezone, CommonZonesLine>>
    ELSE <<ZoneInfoWarning>>

\* Lines 114-128: the default mode.
FormatMode(a, e, now) ==
    LET sys == format_time(now, a.format, None, e)
        utc == format_time(now, a.format, <<"UTC">>, e)
        wantUtc == ~Truthy(a.timezone) /\ a.format = DefaultFormat
    IN  IF sys.kind = "raise" THEN Crash(<<>>, sys.value)
        ELSE IF wantUtc /\ utc.kind = "raise"
        THEN Crash(<<SystemLabel \o sys.value>>, utc.value)
        ELSE Exit(<<SystemLabel \o sys.value>>
                  \o (IF wantUtc THEN <<UtcLabel \o utc.value>> ELSE <<>>)
                  \o ZoneLines(a, e, now))

time_main(a, e, now) ==
    IF a.unix THEN Exit(<<UnixLabel \o Pad(UnixSeconds(now, e), 1)>>)
    ELSE IF Truthy(a.timestamp) THEN Exit(<<timestamp_to_date(a.timestamp, e).value>>)
    ELSE IF Truthy(a.diff)
    THEN LET r == time_diff(a.diff, now)
         IN  IF r.kind = "raise" THEN Crash(<<>>, r.value) ELSE Exit(<<r.value>>)
    ELSE FormatMode(a, e, now)

(***************************************************************************)
(* sysinfo.py                                                              *)
(* Byte counts are given in whole MiB so that they stay within 32-bit      *)
(* integers; psutil's answers are part of the environment env.             *)
(***************************************************************************)
\* Lines 23-25, for a count of mib * 2^20 bytes: "%.2f GB" when at least
\* 1 GiB, else "%.2f MB" (round-half-even on the exact binary quotient).
format_bytes(mib) ==
    LET x == mib * 100
        q == x \div 1024
        r == x % 1024
        hundredths == IF r > 512 \/ (r = 512 /\ q % 2 = 1) THEN q + 1 ELSE q
    IN  IF mib >= 1024
        THEN Pad(hundredths \div 100, 1) \o <<".">> \o Pad(hundredths % 100, 2)
             \o <<" ", "G", "B">>
        ELSE Pad(mib, 1) \o <<".", "0", "0", " ", "M", "B">>

Percent(n) == Pad(n, 1) \o <<"%">>

DictValue(pairs) == [type |-> "dict", items |-> pairs]

ListValue(items) == [type |-> "list", items |-> items]

get_cpu_info(e) ==
    IF "cpu" \in e.fails THEN Raised("OSError")
    ELSE Returned(DictValue(<<
            <<"cores", e.cpu.cores>>,
            <<"physical_cores", e.cpu.physical>>,
            <<"usage", Percent(e.cpu.percent)>>,
            <<"loadavg", IF e.has_getloadavg THEN e.cpu.loadavg ELSE None>> >>))

get_mem_info(e) ==
    IF "mem" \in e.fails THEN Raised("OSError")
    ELSE Returned(DictValue(<<
            <<"total", format_bytes(e.mem.total)>>,
            <<"used", format_bytes(e.mem.used)>>,
            <<"free", format_bytes(e.mem.available)>>,
            <<"usage", Percent(e.mem.percent)>> >>))

\* Lines 49-56: the entry of the partition at position i (its device).
DiskEntry(i, mountpoint, u) ==
    [device |-> i, mountpoint |-> mountpoint, total |-> format_bytes(u.total),
     used |-> format_bytes(u.used), free |-> format_bytes(u.free),
     usage |-> Percent(u.percent)]

\* Lines 46-58: the loop over the partitions from index i on; a partition
\* whose usage query raises is passed over.
RECURSIVE DiskLoop(_, _, _, _)
DiskLoop(partitions, usage, i, disks) ==
    IF i > Len(partitions) THEN disks
    ELSE LET u == usage[partitions[i]]
         IN  IF u.fails THEN DiskLoop(partitions, usage, i + 1, disks)
             ELSE DiskLoop(partitions, usage, i + 1,
                           Append(disks, DiskEntry(i, partitions[i], u)))

\* The loop leaving at the first failing partition instead of passing over it.
RECURSIVE DiskLoopStop(_, _, _, _)
DiskLoopStop(partitions, usage, i, disks) ==
    IF i > Len(partitions) \/ usage[partitions[i]].fails THEN disks
    ELSE DiskLoopStop(partitions, usage, i + 1,
                      Append(disks, DiskEntry(i, partitions[i], usage[partitions[i]])))

get_disk_info_stop(partitions, usage) == DiskLoopStop(partitions, usage, 1, <<>>)

get_disk_info(partitions, usage) == DiskLoop(partitions, usage, 1, <<>>)

\* Lines 61-71: the IPv4 addresses (family 2) of every interface.
RECURSIVE get_network_info(_)
get_network_info(addrs) ==
    IF addrs = <<>> THEN <<>>
    ELSE (IF Head(addrs).family = 2
          THEN <<[interface |-> Head(addrs).name, ip |-> Head(addrs).address,
                  netmask |-> Head(addrs).netmask]>>
          ELSE <<>>) \o get_network_info(Tail(addrs))

\* The sort key of line 82: x.get('memory_percent', 0) or 0.
MemKey(info) == IF info.mem.has = "value" THEN info.mem.pct ELSE 0

\* list.sort(key, reverse=True): descending and stable, as an insertion of
\* each element behind the elements whose key is at least its own.
RECURSIVE InsertDesc(_, _)
InsertDesc(sorted, x) ==
    IF sorted = <<>> THEN <<x>>
    ELSE IF MemKey(Head(sorted)) >= MemKey(x)
    THEN <<Head(sorted)>> \o InsertDesc(Tail(sorted), x)
    ELSE <<x>> \o sorted

RECURSIVE SortDescFrom(_, _, _)
SortDescFrom(seq, i, acc) ==
    IF i > Len(seq) THEN acc ELSE SortDescFrom(seq, i + 1, InsertDesc(acc, seq[i]))

\* An ascending stable sort turned round: equal keys come out reversed.
RECURSIVE Reverse(_)
Reverse(seq) == IF seq = <<>> THEN <<>> ELSE Reverse(Tail(seq)) \o <<Head(seq)>>

SortAscendingReversed(processes) == SortDescFrom(Reverse(processes), 1, <<>>)

SortByMemoryDesc(processes) == SortDescFrom(processes, 1, <<>>)

\* Lines 75-79: the infos of the processes whose info can be read.
RECURSIVE ReadInfos(_)
ReadInfos(procs) ==
    IF procs = <<>> THEN <<>>
    ELSE (IF Head(procs).raises THEN <<>> ELSE <<[pid |-> Head(procs).pid,
                                                  mem |-> Head(procs).mem]>>)
         \o ReadInfos(Tail(procs))

\* The default of the parameter top (line 73).
Top == 10

get_process_info(procs) ==
    LET processes == SortByMemoryDesc(ReadInfos(procs))
    IN  SubSeq(processes, 1, Min(Top, Len(processes)))

get_sys_info(e) ==
    IF "sys" \in e.fails THEN Raised("OSError")
    ELSE Returned(DictValue(<<
            <<"platform", e.sys.platform>>, <<"arch", e.sys.arch>>,
            <<"hostname", e.sys.hostname>>, <<"uptime", Pad(e.sys.boot_time, 1)>>,
            <<"python", e.sys.python>> >>))

SectionNames == <<"sys", "cpu", "mem", "disk", "network", "process">>

\* The keys of result: '系统', 'CPU', '内存', '磁盘', '网络', '进程'.
SectionLabel(sec) ==
    CASE sec = "sys" -> <<"U7CFB", "U7EDF">>
      [] sec = "cpu" -> <<"C", "P", "U">>
      [] sec = "mem" -> <<"U5185", "U5B58">>
      [] sec = "disk" -> <<"U78C1", "U76D8">>
      [] sec = "network" -> <<"U7F51", "U7EDC">>
      [] sec = "process" -> <<"U8FDB", "U7A0B">>

\* The guard with the process section also under 'all'.
RequestedWithProcess(type, sec) == type \in {"all", sec}

\* Lines 104-114: the condition guarding each section.
Requested(type, sec) ==
    IF sec = "process" THEN type = "process" ELSE type \in {"all", sec}

\* The collector of a section; the psutil call it starts with may raise.
Collector(sec, e) ==
    CASE sec = "sys" -> get_sys_info(e)
      [] sec = "cpu" -> get_cpu_info(e)
      [] sec = "mem" -> get_mem_info(e)
      [] sec = "disk" ->
            IF "disk" \in e.fails THEN Raised("OSError")
            ELSE Returned(ListValue(get_disk_info(e.partitions, e.usage)))
      [] sec = "network" ->
            IF "network" \in e.fails THEN Raised("OSError")
            ELSE Returned(ListValue(get_network_info(e.addrs)))
      [] sec = "process" ->
            IF "process" \in e.fails THEN Raised("OSError")
            ELSE Returned(ListValue(get_process_info(e.procs)))

\* Lines 102-115: result, filled in source order; an exception leaves main.
RECURSIVE Collect(_, _, _, _)
Collect(type, e, i, result) ==
    IF i > Len(SectionNames) THEN Returned(result)
    ELSE IF ~Requested(type, SectionNames[i]) THEN Collect(type, e, i + 1, result)
    ELSE LET r == Collector(SectionNames[i], e)
         IN  IF r.kind = "raise" THEN r
             ELSE Collect(type, e, i + 1,
                          Append(result, [key |-> SectionLabel(SectionNames[i]),
                                          value |-> r.value]))

\* Lines 120-127: the text rendering of one section.
RECURSIVE ItemLines(_, _)
ItemLines(kind, items) ==
    IF items = <<>> THEN <<>>
    ELSE <<[kind |-> kind, text |-> Head(items)]>> \o ItemLines(kind, Tail(items))

RECURSIVE RenderText(_)
RenderText(result) ==
    IF result = <<>> THEN <<>>
    ELSE <<[kind |-> "header", text |-> Head(result).key]>>
         \o ItemLines(IF Head(result).value.type = "list" THEN "item" ELSE "field",
                      Head(result).value.items)
         \o RenderText(Tail(result))

PsutilMissingMsg ==
    <<"U9700", "U8981", "U5B89", "U88C5", " ", "p", "s", "u", "t", "i", "l", ":", " ",
      "p", "i", "p", " ", "i", "n", "s", "t", "a", "l", "l", " ", "p", "s", "u", "t",
      "i", "l">>

sysinfo_main(a, e) ==
    IF ~e.psutil THEN Crash(<<[kind |-> "message", text |-> PsutilMissingMsg]>>, "exit 1")
    ELSE LET r == Collect(a.type, e, 1, <<>>)
         IN  IF r.kind = "raise" THEN Crash(<<>>, r.value)
             ELSE IF a.json THEN Exit(<<[kind |-> "json", text |-> r.value]>>)
             ELSE Exit(RenderText(r.value))

(***************************************************************************)
(* Inputs and environments                                                 *)
(***************************************************************************)
MaxFmtLen == 3

MaxZeros == 13

MaxParts == 3

MaxProcs == 11

MaxShortProcs == 2

\* The characters of the tokens of the format language, and a literal.
FmtAlphabet == {"Y", "M", "D", "H", "m", "s", "S", "d", "A", "a", "-"}

\* Longer formats: the default, the four-character tokens and their neighbours.
LongFormats ==
    {<<"Y", "Y", "Y", "Y", "-", "M", "M", "-", "D", "D", " ", "H", "H", ":", "m", "m",
       ":", "s", "s">>,
     <<"Y", "Y", "Y", "Y">>, <<"Y", "Y", "Y", "Y", "Y">>, <<"d", "d", "d", "d">>,
     <<"d", "d", "d", "d", "d">>, <<"D", "D", "d", "d", "d">>, <<"s", "s", "S", "S">>,
     <<"s", "s", ".", "S", "S", "S">>, <<"d", "d", "d", "d", " ", "H", "H", ":", "m", "m", " ", "A">>,
     <<"Y", "Y", "/", "M", "M", "/", "D", "D", " ", "d", "d", "d", " ", "a">>}

FormatStrings == UNION {[1..n -> FmtAlphabet] : n \in 0..MaxFmtLen} \cup LongFormats

\* Monday 2026-11-02 16:05:07.500 and Sunday 2026-06-14 09:30:45.123.
Instants ==
    {DateTime(Ymd2Ord(2026, 11, 2), 57907, 500000),
     DateTime(Ymd2Ord(2026, 6, 14), 34245, 123000)}

TimeEnvs ==
    [zoneinfo : {"full", "no_db", "none"}, local_off : {0, 480},
     strict_strftime : BOOLEAN]

ZoneArgs == {None, <<>>, <<"Asia/Tokyo">>, <<"Asia/Shanghai">>, <<"Mars/Phobos">>}

DateText(y, m, d, w) == Pad(y, 4) \o <<"-">> \o Pad(m, w) \o <<"-">> \o Pad(d, w)

TargetDates ==
    {DateText(2026, 11, 2, 2), DateText(2026, 11, 3, 2), DateText(2026, 11, 5, 2),
     DateText(2026, 10, 30, 2), DateText(2026, 6, 14, 2), DateText(2027, 1, 1, 2),
     DateText(2070, 1, 1, 2), DateText(2026, 2, 30, 2)}

TargetClocks ==
    {<<>>,
     <<" ", "0", "0", ":", "0", "0", ":", "0", "0">>,
     <<"T", "1", "6", ":", "0", "5", ":", "0", "7">>,
     <<"T", "1", "6", ":", "0", "5", ":", "0", "8">>,
     <<" ", "1", "8", ":", "3", "0">>,
     <<" ", "0", "9", ":", "3", "0", ":", "4", "5">>,
     <<"T", "2", "3", ":", "5", "9", ":", "5", "9">>}

TargetZones ==
    {<<>>, <<"Z">>, <<"+", "0", "8", ":", "0", "0">>, <<"-", "0", "5", ":", "0", "0">>}

DiffTargets ==
    {d \o c \o z : d \in TargetDates, c \in TargetClocks, z \in {<<>>}}
    \cup {d \o c \o z : d \in TargetDates, c \in TargetClocks \ {<<>>}, z \in TargetZones}
    \cup {<<"b", "a", "d", "-", "d", "a", "t", "e">>, <<>>,
          DateText(2026, 11, 5, 1), DateText(2026, 3, 7, 1),
          <<"2", "0", "2", "6", "/", "1", "1", "/", "0", "5">>}

Zeros(k) == [i \in 1..k |-> "0"]

Mantissas ==
    {<<"1">>, <<"1", "7">>, <<"2", "5", "3", "4">>, <<"8", "6", "3", "9", "9">>,
     <<"1", "7", "0", "0", "0", "0", "0", "0", "0", "1">>,
     <<"1", "7", "0", "0", "0", "0", "0", "0", "0", "0", "9", "9", "9">>}

TimestampTexts ==
    {m \o Zeros(k) : m \in Mantissas, k \in 0..MaxZeros}
    \cup {<<"-">> \o m \o Zeros(k) : m \in {<<"1">>, <<"8", "6", "3", "9", "9">>}, k \in 0..3}
    \cup {<<"0">>, <<"0", "0", "1", "7">>, <<"+", "7">>, <<" ", "1", "2", " ">>,
          <<>>, <<"a", "b", "c">>, <<"1", "2", ".", "5">>, <<"1", "e", "3">>, <<"-">>,
          <<"n", "o", "t", "-", "a", "-", "n", "u", "m", "b", "e", "r">>}

TimeArgs ==
    [unix : BOOLEAN,
     timestamp : {None, <<>>, <<"1", "7", "0", "0", "0", "0", "0", "0", "0", "0">>,
                  <<"a", "b", "c">>},
     diff : {None, <<>>, DateText(2027, 1, 1, 2), <<"b", "a", "d">>,
             DateText(2026, 11, 3, 2) \o <<"T", "1", "6", ":", "0", "5", ":", "0", "8", "Z">>},
     timezone : ZoneArgs,
     format : {DefaultFormat, <<"H", "H", ":", "m", "m">>}]

Mountpoints == {"/", "/boot", "/mnt"}

Partitions == UNION {[1..n -> Mountpoints] : n \in 0..MaxParts}

UsageOk(total, used) ==
    [fails |-> FALSE, total |-> total, used |-> used, free |-> total - used,
     percent |-> (used * 100) \div total]

UsageFails == [fails |-> TRUE, total |-> 0, used |-> 0, free |-> 0, percent |-> 0]

\* What psutil.disk_usage answers for each mountpoint.
Usages ==
    {[mp \in Mountpoints |-> IF mp \in failing THEN UsageFails
                             ELSE IF mp = "/boot" THEN UsageOk(512, 100)
                             ELSE UsageOk(20480, 7777)] : failing \in SUBSET Mountpoints}

MemAbsent == [has |-> "absent", pct |-> 0]

MemNull == [has |-> "null", pct |-> 0]

MemValue(p) == [has |-> "value", pct |-> p]

MemValues == {MemAbsent, MemNull, MemValue(0), MemValue(1), MemValue(2)}

Proc(i, m, r) == [pid |-> i, mem |-> m, raises |-> r]

\* Enumerations of processes: every short one, and long ones (around Top)
\* that differ from a uniform background in at most two places.
ShortProcLists ==
    UNION {{[i \in 1..n |-> Proc(i, f[i][1], f[i][2])] : f \in [1..n -> MemValues \X BOOLEAN]}
           : n \in 0..MaxShortProcs}

LongProcLists ==
    {[i \in 1..n |-> IF i = p THEN Proc(i, v, FALSE)
                     ELSE IF i = q THEN Proc(i, w, r)
                     ELSE Proc(i, b, FALSE)] :
        n \in (Top - 1)..MaxProcs, p \in 1..MaxProcs, q \in 1..MaxProcs,
        v \in MemValues, w \in MemValues, r \in BOOLEAN, b \in {MemAbsent, MemValue(1)}}

ProcLists == ShortProcLists \cup LongProcLists

SampleAddrs ==
    << [name |-> "lo", family |-> 2, address |-> "127.0.0.1", netmask |-> "255.0.0.0"],
       [name |-> "lo", family |-> 10, address |-> "::1", netmask |-> "ffff::"],
       [name |-> "eth0", family |-> 17, address |-> "02:42:ac:11:00:02", netmask |-> "-"],
       [name |-> "eth0", family |-> 2, address |-> "172.17.0.2", netmask |-> "255.255.0.0"] >>

SampleProcs ==
    <<Proc(1, MemValue(1), FALSE), Proc(2, MemNull, FALSE), Proc(3, MemValue(2), FALSE)>>

SysEnvs ==
    {[psutil |-> ps, fails |-> fl, has_getloadavg |-> la,
      cpu |-> [cores |-> 8, physical |-> 4, percent |-> 12, loadavg |-> <<1, 2, 3>>],
      mem |-> [total |-> 16384, used |-> 5000, available |-> 11000, percent |-> 31],
      sys |-> [platform |-> "Linux", arch |-> "x86_64", hostname |-> "host",
               boot_time |-> 1700000000, python |-> "3.11.6"],
      partitions |-> <<"/", "/boot", "/mnt">>, usage |-> us,
      addrs |-> SampleAddrs, procs |-> SampleProcs] :
        ps \in BOOLEAN, la \in BOOLEAN,
        fl \in {f \in SUBSET {"sys", "cpu", "mem", "disk", "network", "process"} :
                    Cardinality(f) <= 1},
        us \in {u \in Usages : ~u["/"].fails /\ ~u["/mnt"].fails}}

SysArgs ==
    [type : {"cpu", "mem", "disk", "network", "process", "sys", "all"}, json : BOOLEAN]

(***************************************************************************)
(* One invocation                                                          *)
(***************************************************************************)
Init == op = "init" /\ args = <<>> /\ env = <<>> /\ ret = <<>>

Call(name, a, e, r) == op' = name /\ args' = a /\ env' = e /\ ret' = r

FormatTime ==
    /\ op = "init"
    /\ \/ \E fmt \in FormatStrings, dt \in Instants, strict \in BOOLEAN :
             LET e == [zoneinfo |-> "full", local_off |-> 0, strict_strftime |-> strict]
             IN  Call("format_time", [dt |-> dt, fmt |-> fmt, tz |-> None], e,
                      format_time(dt, fmt, None, e))
       \/ \E tz \in ZoneArgs \ {None}, dt \in Instants, e \in TimeEnvs :
             Call("format_time", [dt |-> dt, fmt |-> DefaultFormat, tz |-> tz], e,
                  format_time(dt, DefaultFormat, tz, e))

TimeDiff ==
    /\ op = "init"
    /\ \E target \in DiffTargets, now \in Instants :
        Call("time_diff", [target_str |-> target, now |-> now], <<>>,
             time_diff(target, now))

TimestampToDate ==
    /\ op = "init"
    /\ \E text \in TimestampTexts, off \in {0, 480} :
        LET e == [zoneinfo |-> "full", local_off |-> off, strict_strftime |-> FALSE]
        IN  Call("timestamp_to_date", [ts |-> text], e, timestamp_to_date(text, e))

TimeMain ==
    /\ op = "init"
    /\ \E a \in TimeArgs, e \in TimeEnvs, now \in Instants :
        Call("time_main", a @@ [now |-> now], e,
             time_main(a, e, now))

GetDiskInfo ==
    /\ op = "init"
    /\ \E partitions \in Partitions, usage \in Usages :
        Call("get_disk_info", [partitions |-> partitions], [usage |-> usage],
             get_disk_info(partitions, usage))

GetProcessInfo ==
    /\ op = "init"
    /\ \E procs \in ProcLists :
        Call("get_process_info", [procs |-> procs], <<>>, get_process_info(procs))

SysInfoMain ==
    /\ op = "init"
    /\ \E a \in SysArgs, e \in SysEnvs :
        Call("sysinfo_main", a, e, sysinfo_main(a, e))

Next ==
    \/ FormatTime
    \/ TimeDiff
    \/ TimestampToDate
    \/ TimeMain
    \/ GetDiskInfo
    \/ GetProcessInfo
    \/ SysInfoMain

Spec == Init /\ [][Next]_vars

(***************************************************************************)
(* Properties                                                              *)
(***************************************************************************)
Contains(line, word) ==
    \E i \in 1..(Len(line) - Len(word) + 1) : SubSeq(line, i, i + Len(word) - 1) = word

InDiffMode == op = "time_main" /\ ~args.unix /\ ~Truthy(args.timestamp) /\ Truthy(args.diff)

\* C1: time_diff returns a string for every input string and never fails --
\* the two-accepted-shapes diagnostic when the string parses as neither shape,
\* a description when it parses (a 'Z' suffix or a UTC offset included) --
\* so that main prints one line and completes normally.
C1_DiffNeverFails ==
    /\ op = "time_diff" =>
          /\ ret.kind = "return"
          /\ ParseTarget(args.target_str).ok <=> ret.value # InvalidDateMsg
    /\ InDiffMode => ret.exit = "ok" /\ Len(ret.stdout) = 1

\* The single left-to-right scan of the format language: at each position
\* the longest token that matches is rendered, any other character is copied.
TokenText(dt, tok) ==
    CASE tok = <<"Y", "Y", "Y", "Y">> -> Pad(OrdYear(dt.ord), 4)
      [] tok = <<"Y", "Y">> -> Pad(OrdYear(dt.ord) % 100, 2)
      [] tok = <<"M", "M">> -> Pad(OrdMonth(dt.ord), 2)
      [] tok = <<"D", "D">> -> Pad(OrdDay(dt.ord), 2)
      [] tok = <<"H", "H">> -> Pad(Hour(dt), 2)
      [] tok = <<"m", "m">> -> Pad(Minute(dt), 2)
      [] tok = <<"s", "s">> -> Pad(Second(dt), 2)
      [] tok = <<"S", "S", "S">> -> Pad(dt.us \div 1000, 3)
      [] tok = <<"d", "d", "d", "d">> -> WEEKDAYS[Weekday(dt) + 1]
      [] tok = <<"d", "d", "d">> -> WEEKDAYS_SHORT[Weekday(dt) + 1]
      [] tok = <<"A">> -> IF Hour(dt) < 12 THEN <<"A", "M">> ELSE <<"P", "M">>
      [] tok = <<"a">> -> IF Hour(dt) < 12 THEN <<"a", "m">> ELSE <<"p", "m">>

Tokens ==
    {<<"Y", "Y", "Y", "Y">>, <<"Y", "Y">>, <<"M", "M">>, <<"D", "D">>, <<"H", "H">>,
     <<"m", "m">>, <<"s", "s">>, <<"S", "S", "S">>, <<"d", "d", "d", "d">>,
     <<"d", "d", "d">>, <<"A">>, <<"a">>}

RECURSIVE GreedyScan(_, _)
GreedyScan(dt, fmt) ==
    IF fmt = <<>> THEN <<>>
    ELSE LET here == {t \in Tokens : StartsWith(fmt, t)}
         IN  IF here = {} THEN <<Head(fmt)>> \o GreedyScan(dt, Tail(fmt))
             ELSE LET t == CHOOSE x \in here : \A y \in here : Len(y) <= Len(x)
                  IN  TokenText(dt, t) \o GreedyScan(dt, Drop(fmt, Len(t)))

\* C2: for every format string of tokens and literal characters, format_time
\* returns what the single greedy left-to-right scan returns: no replacement
\* text is matched again, or merged with its neighbours, by a later pass.
C2_SinglePassEquivalent ==
    op = "format_time" /\ args.tz = None =>
        ret = Returned(GreedyScan(args.dt, args.fmt))

InFormatMode == op = "time_main" /\ ~args.unix /\ ~Truthy(args.timestamp) /\ ~Truthy(args.diff)

\* C3: a requested timezone identifier that cannot be resolved (unknown, or
\* no timezone support on the host) yields an explicit error naming the
\* identifier, never a time string computed in local time or UTC, and the
\* process completes normally.
C3_UnresolvableZoneIsError ==
    /\ op = "format_time" /\ Truthy(args.tz) /\ ~ZoneResolves(env, args.tz)
          => ret.kind = "raise"
    /\ InFormatMode /\ Truthy(args.timezone) /\ ~ZoneResolves(env, args.timezone)
          => /\ ret.exit = "ok"
             /\ \E i \in 1..Len(ret.stdout) :
                    /\ Contains(ret.stdout[i], args.timezone)
                    /\ ~StartsWith(ret.stdout[i], args.timezone \o <<":", " ">>)
             /\ \A i \in 1..Len(ret.stdout) :
                    ~StartsWith(ret.stdout[i], args.timezone \o <<":", " ">>)

\* The section labels of a rendered report, in the order printed.
RECURSIVE HeaderTexts(_)
HeaderTexts(lines) ==
    IF lines = <<>> THEN <<>>
    ELSE (IF Head(lines).kind = "header" THEN <<Head(lines).text>> ELSE <<>>)
         \o HeaderTexts(Tail(lines))

ReportSections(stdout) ==
    IF stdout # <<>> /\ stdout[1].kind = "json"
    THEN [i \in 1..Len(stdout[1].text) |-> stdout[1].text[i].key]
    ELSE HeaderTexts(stdout)

InSeq(x, seq) == \E i \in 1..Len(seq) : seq[i] = x

\* The sections a selector asks for.
Wanted(type) ==
    IF type = "all" THEN {"sys", "cpu", "mem", "disk", "network"} ELSE {type}

\* C4: a failure while collecting one subsection never aborts the run or
\* loses the other sections: every requested section whose own collection
\* succeeded is present in the rendered report.
C4_FailureIsContained ==
    op = "sysinfo_main" /\ env.psutil =>
        /\ ret.exit = "ok"
        /\ \A sec \in Wanted(args.type) \ env.fails :
              InSeq(SectionLabel(sec), ReportSections(ret.stdout))

\* C5: main selects exactly one mode by strict precedence over the options
\* that are present, whatever value was supplied: unix, else timestamp
\* decoding, else diff, else the formatted current time; every line printed
\* belongs to that mode.
C5_ModePrecedence ==
    op = "time_main" =>
        IF args.unix
        THEN Len(ret.stdout) = 1 /\ StartsWith(ret.stdout[1], UnixLabel)
        ELSE IF args.timestamp # None
        THEN ret.stdout = <<timestamp_to_date(args.timestamp, env).value>>
        ELSE IF args.diff # None
        THEN LET r == time_diff(args.diff, args.now)
             IN  ret.stdout = IF r.kind = "return" THEN <<r.value>> ELSE <<>>
        ELSE ret.stdout # <<>> => StartsWith(ret.stdout[1], SystemLabel)

\* |target - now| in whole seconds, for two naive datetimes.
AbsWholeSeconds(t, n) ==
    LET ds == (t.ord - n.ord) * 86400 + (t.sec - n.sec)
        du == t.us - n.us
    IN  IF ds > 0 \/ (ds = 0 /\ du >= 0)
        THEN (IF du < 0 THEN ds - 1 ELSE ds)
        ELSE (IF du > 0 THEN -ds - 1 ELSE -ds)

\* A description is direction, blank, the 19 characters of the target
\* timestamp, then the breakdown.
BreakdownOf(text) ==
    LET k == CHOOSE i \in 1..Len(text) : text[i] = " " /\ \A j \in 1..(i - 1) : text[j] # " "
    IN  Drop(text, k + 19)

BreakdownMatches(text, target, now) ==
    LET delta == AbsWholeSeconds(target, now)
        d == delta \div 86400
        h == (delta % 86400) \div 3600
        m == (delta % 3600) \div 60
    IN  /\ h \in 0..23 /\ m \in 0..59
        /\ BreakdownOf(text) =
              (IF d > 0 THEN DaysPart(d) ELSE <<>>)
              \o (IF h > 0 THEN HoursPart(h) ELSE <<>>)
              \o (IF m > 0 /\ d = 0 THEN MinutesPart(m) ELSE <<>>)

\* C6: for every successfully parsed diff target the breakdown printed holds
\* the day count floor(|delta|/86400) iff it is > 0, the hour count
\* floor((|delta| mod 86400)/3600) iff it is > 0, and the minute count
\* floor((|delta| mod 3600)/60) iff it is > 0 and the day count is 0.
C6_BreakdownOfEveryParsedTarget ==
    op = "time_diff" /\ ParseTarget(args.target_str).ok =>
        /\ ret.kind = "return"
        /\ BreakdownMatches(ret.value, ParseTarget(args.target_str).dt, args.now)

\* The part of C6 the code does satisfy: every breakdown that is printed
\* matches the floor arithmetic.
PrintedBreakdownMatches ==
    op = "time_diff" /\ ParseTarget(args.target_str).ok /\ ret.kind = "return" =>
        BreakdownMatches(ret.value, ParseTarget(args.target_str).dt, args.now)

IsWholeSeconds(n) == n.ok /\ ~n.neg

\* C7 as stated: an integer below 1e12 is read as seconds and one at or above
\* 1e12 as milliseconds, so that decode(s * 1000) renders what decode(s)
\* renders for every whole s with s * 1000 >= 1e12; a non-integer yields the
\* invalid-timestamp diagnostic.
C7_MillisecondsRoundTrip ==
    op = "timestamp_to_date" =>
        LET n == ParseInt(args.ts)
        IN  /\ ret.kind = "return"
            /\ ~n.ok => ret.value = InvalidTimestampMsg
            /\ IsWholeSeconds(n) /\ Len(n.digits) >= 10 =>
                  timestamp_to_date(n.digits \o Zeros(3), env) = ret

Stamp2023 == <<"2", "0", "2", "3", "-", "1", "1", "-">>

\* C7 amended: the same, with the round trip for the whole s with
\* 1e9 <= s < 1e12 (s * 1000 is then read as milliseconds and s as seconds);
\* an integer v with 1e12 <= v < 1e15 renders what floor(v / 1000) seconds
\* render, and 1700000000 renders a date in 2023.
C7_RoundTripBelowThreshold ==
    op = "timestamp_to_date" =>
        LET n == ParseInt(args.ts)
        IN  /\ ret.kind = "return"
            /\ ~n.ok => ret.value = InvalidTimestampMsg
            /\ IsWholeSeconds(n) /\ Len(n.digits) \in 10..12 =>
                  timestamp_to_date(n.digits \o Zeros(3), env) = ret
            /\ IsWholeSeconds(n) /\ Len(n.digits) \in 13..15 =>
                  timestamp_to_date(SubSeq(n.digits, 1, Len(n.digits) - 3), env) = ret
            /\ n.ok /\ n.digits = <<"1", "7">> \o Zeros(8) /\ ~n.neg =>
                  StartsWith(ret.value, Stamp2023)

\* A ten-digit count of seconds that decodes to a calendar date.
C7_Witness ==
    /\ op = "timestamp_to_date"
    /\ ParseInt(args.ts).ok /\ Len(ParseInt(args.ts).digits) = 10
    /\ ret.value # InvalidTimestampMsg
    /\ timestamp_to_date(args.ts \o Zeros(3), env) = ret

ExpectedSections(type) ==
    IF type = "all"
    THEN <<SectionLabel("sys"), SectionLabel("cpu"), SectionLabel("mem"),
           SectionLabel("disk"), SectionLabel("network")>>
    ELSE <<SectionLabel(type)>>

\* C8: for every selector the report holds exactly the requested sections:
\* 'all' gives system, cpu, memory, disk, network in that order and no
\* process section, a single selector gives that one section, and the
\* process section appears iff the selector is 'process'.
C8_ExactlyRequestedSections ==
    op = "sysinfo_main" /\ env.psutil =>
        /\ args.type = "all" => ~InSeq(SectionLabel("process"), ReportSections(ret.stdout))
        /\ Wanted(args.type) \cap env.fails = {}
              => /\ ret.exit = "ok"
                 /\ ReportSections(ret.stdout) = ExpectedSections(args.type)
                 /\ InSeq(SectionLabel("process"), ReportSections(ret.stdout))
                       <=> args.type = "process"

\* A report for 'all' with its five sections.
C8_Witness ==
    /\ op = "sysinfo_main" /\ args.type = "all" /\ ret.exit = "ok"
    /\ Len(ReportSections(ret.stdout)) = 5

\* The enumeration as get_process_info reads it: the processes whose info
\* could be read, in enumeration order.
Readable(procs) == {i \in 1..Len(procs) : ~procs[i].raises}

KeyOf(procs, pid) == IF procs[pid].mem.has = "value" THEN procs[pid].mem.pct ELSE 0

\* pid a comes before pid b in the descending stable order.
Before(procs, a, b) ==
    KeyOf(procs, a) > KeyOf(procs, b) \/ (KeyOf(procs, a) = KeyOf(procs, b) /\ a < b)

\* C9: get_process_info returns at most 10 entries, the first min(10, n) of
\* the enumeration sorted by memory percentage in non-increasing order, a
\* missing (absent or null) percentage counting as zero and equal percentages
\* keeping their enumeration order.
C9_TopTenStableDescending ==
    op = "get_process_info" =>
        LET procs == args.procs
            n == Cardinality(Readable(procs))
            got == {ret[i].pid : i \in 1..Len(ret)}
        IN  /\ Len(ret) = Min(10, n)
            /\ Cardinality(got) = Len(ret)
            /\ got \subseteq Readable(procs)
            /\ \A i \in 1..Len(ret) : ret[i].mem = procs[ret[i].pid].mem
            /\ \A i, j \in 1..Len(ret) : i < j => Before(procs, ret[i].pid, ret[j].pid)
            /\ \A a \in got, b \in Readable(procs) \ got : Before(procs, a, b)

\* More than ten processes, a tie between a missing percentage and a zero
\* one across the cut, and a larger percentage that moved to the front.
C9_Witness ==
    /\ op = "get_process_info"
    /\ Len(args.procs) > 10 /\ Len(ret) = 10
    /\ ret[1].pid # 1
    /\ \E i \in 1..Len(ret) : ret[i].mem.has # "value"
    /\ \E b \in Readable(args.procs) \ {ret[i].pid : i \in 1..Len(ret)} :
            KeyOf(args.procs, b) = KeyOf(args.procs, ret[10].pid)

\* C10: get_disk_info returns exactly one entry for each partition whose
\* usage query succeeded, in enumeration order, and none for a failing one.
C10_OneEntryPerReadablePartition ==
    op = "get_disk_info" =>
        LET ok == {i \in 1..Len(args.partitions) : ~env.usage[args.partitions[i]].fails}
        IN  /\ {ret[k].device : k \in 1..Len(ret)} = ok
            /\ \A j, k \in 1..Len(ret) : j < k => ret[j].device < ret[k].device
            /\ \A k \in 1..Len(ret) :
                  ret[k].mountpoint = args.partitions[ret[k].device]

\* A failing partition between two readable ones, both reported.
C10_Witness ==
    /\ op = "get_disk_info"
    /\ Len(args.partitions) = 3 /\ Len(ret) = 2
    /\ env.usage[args.partitions[2]].fails
    /\ ret[1].device = 1 /\ ret[2].device = 3

=============================================================================
